---- MODULE Spec2Model ----
(***************************************************************************)
(* nested-navigator: the NestedNavigator class (navigateTo, compare, find, *)
(* filter, getIndex, getLength, value) and the navigator() entry point.    *)
(*                                                                         *)
(* A JavaScript value is a record [id, t, v]: t is the kind of value, v    *)
(* its payload and id the reference of an object or array (0 for a         *)
(* primitive).  A string is the sequence of its characters, a keyed record *)
(* a function from property names (strings) to values, an array the        *)
(* sequence of its elements.  A call either returns or throws a TypeError; *)
(* an operator that models an expression that can throw yields a record    *)
(* [fault, val].                                                           *)
(***************************************************************************)
EXTENDS Integers, Sequences, FiniteSets, TLC

----------------------------------------------------------------------------
(* Bounds of the model *)

\* longest path string enumerated character by character
MaxPathLen == 3

\* numbers passed as arguments range over 0 .. MaxNum
MaxNum == 3

----------------------------------------------------------------------------
(* JavaScript values *)

Undef == [id |-> 0, t |-> "undefined", v |-> 0]

Null == [id |-> 0, t |-> "null", v |-> 0]

NaN == [id |-> 0, t |-> "nan", v |-> 0]

Num(n) == [id |-> 0, t |-> "number", v |-> n]

Str(s) == [id |-> 0, t |-> "string", v |-> s]

Bool(b) == [id |-> 0, t |-> "boolean", v |-> b]

Obj(ref, f) == [id |-> ref, t |-> "record", v |-> f]

Arr(ref, s) == [id |-> ref, t |-> "array", v |-> s]

\* the typeof operator
Typeof(x) ==
  CASE x.t = "undefined" -> "undefined"
    [] x.t = "null" -> "object"
    [] x.t = "nan" -> "number"
    [] x.t = "number" -> "number"
    [] x.t = "string" -> "string"
    [] x.t = "boolean" -> "boolean"
    [] x.t = "record" -> "object"
    [] x.t = "array" -> "object"

\* Array.isArray
IsArray(x) == x.t = "array"

----------------------------------------------------------------------------
(* Strings and numbers *)

Digits == {"0", "1", "2", "3", "4", "5", "6", "7", "8", "9"}

DigitVal(c) ==
  CASE c = "0" -> 0 [] c = "1" -> 1 [] c = "2" -> 2 [] c = "3" -> 3
    [] c = "4" -> 4 [] c = "5" -> 5 [] c = "6" -> 6 [] c = "7" -> 7
    [] c = "8" -> 8 [] c = "9" -> 9

DigitChar(d) ==
  CASE d = 0 -> "0" [] d = 1 -> "1" [] d = 2 -> "2" [] d = 3 -> "3"
    [] d = 4 -> "4" [] d = 5 -> "5" [] d = 6 -> "6" [] d = 7 -> "7"
    [] d = 8 -> "8" [] d = 9 -> "9"

\* /^\d+$/.test(key)
IsAllDigits(key) == Len(key) > 0 /\ \A i \in 1..Len(key) : key[i] \in Digits

\* parseInt that adds each digit without shifting the digits before it
RECURSIVE ParseIntFrom_NoShift(_, _, _)
ParseIntFrom_NoShift(key, i, n) ==
  IF i > Len(key) \/ key[i] \notin Digits
    THEN n
    ELSE ParseIntFrom_NoShift(key, i + 1, n + DigitVal(key[i]))

\* parseInt(key, 10) of a string that starts with a digit: the decimal value
\* of its longest prefix of digits, accumulated left to right
RECURSIVE ParseIntFrom(_, _, _)
ParseIntFrom(key, i, n) ==
  IF i > Len(key) \/ key[i] \notin Digits
    THEN n
    ELSE ParseIntFrom(key, i + 1, 10 * n + DigitVal(key[i]))

\* parseInt(key, 10): NaN when the string does not start with a digit
ParseInt(key) ==
  IF Len(key) = 0 \/ key[1] \notin Digits THEN NaN ELSE Num(ParseIntFrom(key, 1, 0))

\* Number.prototype.toString of a non-negative integer
RECURSIVE NatToString(_)
NatToString(n) ==
  IF n < 10 THEN <<DigitChar(n)>> ELSE NatToString(n \div 10) \o <<DigitChar(n % 10)>>

\* String(x) of a number: "NaN", or the decimal digits with a sign
NumberToString(x) ==
  IF x.t = "nan" THEN <<"N", "a", "N">>
  ELSE IF x.v < 0 THEN <<"-">> \o NatToString(0 - x.v)
  ELSE NatToString(x.v)

\* a property name is an array index when it is the canonical decimal form of
\* a non-negative integer: all digits and no leading zero
IsArrayIndex(key) == IsAllDigits(key) /\ (Len(key) = 1 \/ key[1] # "0")

LengthKey == <<"l", "e", "n", "g", "t", "h">>

\* ToPropertyKey: the property name a value is converted to when it is used
\* between brackets
ToPropertyKey(k) ==
  CASE k.t = "string" -> k.v
    [] k.t \in {"number", "nan"} -> NumberToString(k)
    [] k.t = "undefined" -> <<"u", "n", "d", "e", "f", "i", "n", "e", "d">>
    [] k.t = "null" -> <<"n", "u", "l", "l">>
    [] k.t = "boolean" -> IF k.v THEN <<"t", "r", "u", "e">> ELSE <<"f", "a", "l", "s", "e">>
    [] k.t = "record" -> <<"[", "o", "b", "j", "e", "c", "t", " ", "O", "b", "j", "e", "c", "t", "]">>

\* the number a string of binary digits denotes, read from position i on
RECURSIVE BinaryFrom(_, _, _)
BinaryFrom(key, i, n) ==
  IF i > Len(key) THEN n ELSE BinaryFrom(key, i + 1, 2 * n + DigitVal(key[i]))

IsBinaryLiteral(key) ==
  /\ Len(key) > 2
  /\ key[1] = "0"
  /\ key[2] \in {"b", "B"}
  /\ \A i \in 3..Len(key) : key[i] \in {"0", "1"}

\* Number(key) of a string: 0 for the empty string, the value of a decimal
\* literal with or without a sign and of a binary literal, NaN for a string
\* that is no numeric literal (the strings here hold no white space, no
\* fraction, no exponent and no other radix prefix)
StringToNumber(key) ==
  IF key = <<>> THEN Num(0)
  ELSE IF IsAllDigits(key) THEN Num(ParseIntFrom(key, 1, 0))
  ELSE IF key[1] \in {"-", "+"} /\ IsAllDigits(Tail(key))
    THEN Num(IF key[1] = "-" THEN 0 - ParseIntFrom(Tail(key), 1, 0)
             ELSE ParseIntFrom(Tail(key), 1, 0))
  ELSE IF IsBinaryLiteral(key) THEN Num(BinaryFrom(key, 3, 0))
  ELSE NaN

\* ToBoolean: what the operand of && counts as
Truthy(x) ==
  CASE x.t \in {"undefined", "null", "nan"} -> FALSE
    [] x.t = "number" -> x.v # 0
    [] x.t = "string" -> x.v # <<>>
    [] x.t = "boolean" -> x.v
    [] OTHER -> TRUE

----------------------------------------------------------------------------
(* Property access *)

Returns(x) == [fault |-> FALSE, val |-> x]

Throws == [fault |-> TRUE, val |-> Undef]

\* a property access that knows the elements of an array and of a string but
\* not their length
GetProp_NoLength(acc, key) ==
  CASE acc.t \in {"undefined", "null"} -> Throws
    [] acc.t = "record" ->
         Returns(IF key \in DOMAIN acc.v THEN acc.v[key] ELSE Undef)
    [] acc.t = "array" ->
         IF IsArrayIndex(key) /\ ParseIntFrom(key, 1, 0) < Len(acc.v)
           THEN Returns(acc.v[ParseIntFrom(key, 1, 0) + 1])
           ELSE Returns(Undef)
    [] acc.t = "string" ->
         IF IsArrayIndex(key) /\ ParseIntFrom(key, 1, 0) < Len(acc.v)
           THEN Returns(Str(<<acc.v[ParseIntFrom(key, 1, 0) + 1]>>))
           ELSE Returns(Undef)
    [] OTHER -> Returns(Undef)

\* acc[key] for a property name key: a TypeError on undefined and null, an own
\* property of a record, an element or the length of an array or a string,
\* undefined otherwise
GetProp(acc, key) ==
  CASE acc.t \in {"undefined", "null"} -> Throws
    [] acc.t = "record" ->
         Returns(IF key \in DOMAIN acc.v THEN acc.v[key] ELSE Undef)
    [] acc.t = "array" ->
         IF key = LengthKey THEN Returns(Num(Len(acc.v)))
         ELSE IF IsArrayIndex(key) /\ ParseIntFrom(key, 1, 0) < Len(acc.v)
           THEN Returns(acc.v[ParseIntFrom(key, 1, 0) + 1])
           ELSE Returns(Undef)
    [] acc.t = "string" ->
         IF key = LengthKey THEN Returns(Num(Len(acc.v)))
         ELSE IF IsArrayIndex(key) /\ ParseIntFrom(key, 1, 0) < Len(acc.v)
           THEN Returns(Str(<<acc.v[ParseIntFrom(key, 1, 0) + 1]>>))
           ELSE Returns(Undef)
    [] OTHER -> Returns(Undef)

\* acc[k] for any value k between the brackets
GetElem(acc, k) == GetProp(acc, ToPropertyKey(k))

----------------------------------------------------------------------------
(* navigateTo *)

\* String.prototype.split("."): the pieces between the dots, left to right;
\* the empty string splits into one empty piece
RECURSIVE SplitFrom(_, _, _, _)
SplitFrom(s, i, piece, out) ==
  IF i > Len(s) THEN Append(out, piece)
  ELSE IF s[i] = "." THEN SplitFrom(s, i + 1, <<>>, Append(out, piece))
  ELSE SplitFrom(s, i + 1, Append(piece, s[i]), out)

split(s) == SplitFrom(s, 1, <<>>, <<>>)

\* a callback without the index branch: every segment is read as a name
reduceCallback_NoIndex(acc, key) ==
  IF acc.t = "undefined" THEN Returns(Undef) ELSE GetProp(acc, key)

\* a callback without the test of an undefined accumulator
reduceCallback_NoGuard(acc, key) ==
  IF IsArray(acc) /\ IsAllDigits(key) THEN GetElem(acc, ParseInt(key))
  ELSE GetProp(acc, key)

\* a callback that turns a null it reads into undefined (acc[key] ?? undefined)
reduceCallback_Nullish(acc, key) ==
  IF acc.t = "undefined" THEN Returns(Undef)
  ELSE LET r == IF IsArray(acc) /\ IsAllDigits(key)
                  THEN GetElem(acc, ParseInt(key)) ELSE GetProp(acc, key)
       IN IF r.val = Null THEN Returns(Undef) ELSE r

\* a callback that takes every segment applied to an array for a number
\* (acc[Number(key)])
reduceCallback_Number(acc, key) ==
  IF acc.t = "undefined" THEN Returns(Undef)
  ELSE IF IsArray(acc) THEN GetElem(acc, StringToNumber(key))
  ELSE GetProp(acc, key)

\* the callback navigateTo hands to reduce
reduceCallback(acc, key) ==
  IF acc.t = "undefined" THEN Returns(Undef)
  ELSE IF IsArray(acc) /\ IsAllDigits(key) THEN GetElem(acc, ParseInt(key))
  ELSE GetProp(acc, key)

\* Array.prototype.reduce with an initial value: the callback is applied to
\* the segments in order, and a TypeError it throws ends the call
RECURSIVE reduce(_, _, _)
reduce(segs, i, acc) ==
  IF i > Len(segs) THEN Returns(acc)
  ELSE LET r == reduceCallback(acc, segs[i])
       IN IF r.fault THEN Throws ELSE reduce(segs, i + 1, r.val)

\* a navigateTo that splits the path into two pieces at most (split(".", 2))
navigateToValue_Limit(cur, keyPath) ==
  LET segs == split(keyPath)
  IN reduce(IF Len(segs) > 2 THEN SubSeq(segs, 1, 2) ELSE segs, 1, cur)

\* the current value of the Navigator navigateTo(keyPath) returns
navigateToValue(cur, keyPath) == reduce(split(keyPath), 1, cur)

\* an earlier callback that reads every segment as a name, on arrays too
reduceCallbackLegacy_NoNumber(o, k) ==
  IF ~Truthy(o) THEN Returns(o) ELSE GetProp(o, k)

\* the callback the navigateTo of the earlier class hands to reduce:
\* o && (Array.isArray(o) ? o[Number(k)] : o[k])
reduceCallbackLegacy(o, k) ==
  IF ~Truthy(o) THEN Returns(o)
  ELSE IF IsArray(o) THEN GetElem(o, StringToNumber(k))
  ELSE GetProp(o, k)

RECURSIVE reduceLegacy(_, _, _)
reduceLegacy(segs, i, o) ==
  IF i > Len(segs) THEN Returns(o)
  ELSE LET r == reduceCallbackLegacy(o, segs[i])
       IN IF r.fault THEN Throws ELSE reduceLegacy(segs, i + 1, r.val)

\* the current value of the Navigator the navigateTo of the earlier class
\* returns
navigateToLegacyValue(cur, keyPath) == reduceLegacy(split(keyPath), 1, cur)

----------------------------------------------------------------------------
(* compare *)

\* a == b in place of a === b: null equals undefined, and a number equals
\* the text of its digits
StrictEquals_Loose(a, b) ==
  IF a.t = "nan" \/ b.t = "nan" THEN FALSE
  ELSE IF a.t \in {"null", "undefined"} /\ b.t \in {"null", "undefined"} THEN TRUE
  ELSE IF a.t = "number" /\ b.t = "string" THEN a.v >= 0 /\ NatToString(a.v) = b.v
  ELSE IF a.t = "string" /\ b.t = "number" THEN b.v >= 0 /\ NatToString(b.v) = a.v
  ELSE IF a.t # b.t THEN FALSE
  ELSE IF a.t \in {"record", "array"} THEN a.id = b.id
  ELSE a.v = b.v

\* a === b: never true of NaN, by reference for records and arrays
StrictEquals(a, b) ==
  IF a.t = "nan" \/ b.t = "nan" THEN FALSE
  ELSE IF a.t # b.t THEN FALSE
  ELSE IF a.t \in {"record", "array"} THEN a.id = b.id
  ELSE a.v = b.v

\* a > b for two values of type number: false when either is NaN
NumGreater(a, b) == a.t = "number" /\ b.t = "number" /\ a.v > b.v

\* a >= b for two values of type number: false when either is NaN
NumGreaterEq(a, b) == a.t = "number" /\ b.t = "number" /\ a.v >= b.v

\* compare without the typeof tests of the two inclusive orderings, so that a
\* text is greater than or equal to itself
compare_NoTypeof(a, b, operation) ==
  CASE operation = "equals" -> StrictEquals(a, b)
    [] operation = "not_equals" -> ~StrictEquals(a, b)
    [] operation = "greater_than" ->
         Typeof(a) = "number" /\ Typeof(b) = "number" /\ NumGreater(a, b)
    [] operation = "less_than" ->
         Typeof(a) = "number" /\ Typeof(b) = "number" /\ NumGreater(b, a)
    [] operation = "greater_than_or_equal" ->
         NumGreaterEq(a, b) \/ (a.t = "string" /\ b.t = "string" /\ a.v = b.v)
    [] operation = "less_than_or_equal" ->
         NumGreaterEq(b, a) \/ (a.t = "string" /\ b.t = "string" /\ a.v = b.v)
    [] OTHER -> FALSE

compare(a, b, operation) ==
  CASE operation = "equals" -> StrictEquals(a, b)
    [] operation = "not_equals" -> ~StrictEquals(a, b)
    [] operation = "greater_than" ->
         Typeof(a) = "number" /\ Typeof(b) = "number" /\ NumGreater(a, b)
    [] operation = "less_than" ->
         Typeof(a) = "number" /\ Typeof(b) = "number" /\ NumGreater(b, a)
    [] operation = "greater_than_or_equal" ->
         Typeof(a) = "number" /\ Typeof(b) = "number" /\ NumGreaterEq(a, b)
    [] operation = "less_than_or_equal" ->
         Typeof(a) = "number" /\ Typeof(b) = "number" /\ NumGreaterEq(b, a)
    [] OTHER -> FALSE

----------------------------------------------------------------------------
(* find, filter, getIndex, getLength *)

Operations ==
  {"equals", "not_equals", "greater_than", "less_than",
   "greater_than_or_equal", "less_than_or_equal"}

\* the operation argument left out (or passed as undefined)
OperationOmitted == "<omitted>"

\* a default that is not_equals
DefaultOperation_NotEquals(operation) ==
  IF operation = OperationOmitted THEN "not_equals" ELSE operation

\* the default value of the operation parameter
DefaultOperation(operation) ==
  IF operation = OperationOmitted THEN "equals" ELSE operation

\* the callbacks handed to Array.prototype.find, filter and findIndex:
\* by key, compare(item[key], value, operation); by item,
\* compare(item, keyOrValue, operation).  [fault, a, b, r]: whether reading
\* item[key] threw, and otherwise the operands of compare and its result.
callback(byKey, item, key, value, operation) ==
  IF byKey
    THEN LET p == GetElem(item, key)
         IN IF p.fault
              THEN [fault |-> TRUE, a |-> Undef, b |-> value, r |-> FALSE]
              ELSE [fault |-> FALSE, a |-> p.val, b |-> value,
                    r |-> compare(p.val, value, operation)]
    ELSE [fault |-> FALSE, a |-> item, b |-> key,
          r |-> compare(item, key, operation)]

LogEntry(c, operation) == [a |-> c.a, b |-> c.b, operation |-> operation, r |-> c.r]

\* a findIndex that goes on after a match and ends on the last one
RECURSIVE findIndexFrom_Last(_, _, _, _, _, _, _)
findIndexFrom_Last(items, i, byKey, key, value, operation, log) ==
  IF i > Len(items) THEN [fault |-> FALSE, index |-> 0 - 1, log |-> log]
  ELSE LET c == callback(byKey, items[i], key, value, operation)
           rest == findIndexFrom_Last(items, i + 1, byKey, key, value, operation,
                                      Append(log, LogEntry(c, operation)))
       IN IF c.fault THEN [fault |-> TRUE, index |-> 0 - 1, log |-> log]
          ELSE IF c.r /\ ~rest.fault /\ rest.index < 0
            THEN [fault |-> FALSE, index |-> i - 1, log |-> rest.log]
            ELSE rest

\* Array.prototype.findIndex: the elements are visited in order until the
\* callback returns true or throws.  [fault, index, log]: index is zero-based
\* and -1 when no element matched, log the calls of compare that were made.
RECURSIVE findIndexFrom(_, _, _, _, _, _, _)
findIndexFrom(items, i, byKey, key, value, operation, log) ==
  IF i > Len(items) THEN [fault |-> FALSE, index |-> 0 - 1, log |-> log]
  ELSE LET c == callback(byKey, items[i], key, value, operation)
       IN IF c.fault THEN [fault |-> TRUE, index |-> 0 - 1, log |-> log]
          ELSE IF c.r
            THEN [fault |-> FALSE, index |-> i - 1,
                  log |-> Append(log, LogEntry(c, operation))]
            ELSE findIndexFrom(items, i + 1, byKey, key, value, operation,
                               Append(log, LogEntry(c, operation)))

\* Array.prototype.find: the first element the callback accepts, undefined
\* when there is none
\* an Array.prototype.find that returns the last element the callback accepts
arrayFind_Last(items, key, value, operation) ==
  LET f == findIndexFrom_Last(items, 1, TRUE, key, value, operation, <<>>)
  IN [fault |-> f.fault,
      val |-> IF f.fault \/ f.index < 0 THEN Undef ELSE items[f.index + 1],
      log |-> f.log]

arrayFind(items, key, value, operation) ==
  LET f == findIndexFrom(items, 1, TRUE, key, value, operation, <<>>)
  IN [fault |-> f.fault,
      val |-> IF f.fault \/ f.index < 0 THEN Undef ELSE items[f.index + 1],
      log |-> f.log]

\* a filter that puts each accepted element in front of the ones before it
RECURSIVE filterFrom_Prepend(_, _, _, _, _, _, _)
filterFrom_Prepend(items, i, key, value, operation, out, log) ==
  IF i > Len(items) THEN [fault |-> FALSE, val |-> out, log |-> log]
  ELSE LET c == callback(TRUE, items[i], key, value, operation)
       IN IF c.fault THEN [fault |-> TRUE, val |-> <<>>, log |-> log]
          ELSE filterFrom_Prepend(items, i + 1, key, value, operation,
                                  IF c.r THEN <<items[i]>> \o out ELSE out,
                                  Append(log, LogEntry(c, operation)))

\* Array.prototype.filter: every element is visited; the accepted ones are
\* appended to a new array in order
RECURSIVE filterFrom(_, _, _, _, _, _, _)
filterFrom(items, i, key, value, operation, out, log) ==
  IF i > Len(items) THEN [fault |-> FALSE, val |-> out, log |-> log]
  ELSE LET c == callback(TRUE, items[i], key, value, operation)
       IN IF c.fault THEN [fault |-> TRUE, val |-> <<>>, log |-> log]
          ELSE filterFrom(items, i + 1, key, value, operation,
                          IF c.r THEN Append(out, items[i]) ELSE out,
                          Append(log, LogEntry(c, operation)))

\* the reference of the array a call of filter creates: an array that is no
\* part of the root data
NewRef == 99

\* a filter that returns an empty array when the current value is no array
filterValue_EmptyOnNonArray(cur, key, value, operation) ==
  IF ~IsArray(cur) THEN [fault |-> FALSE, val |-> Arr(NewRef, <<>>), log |-> <<>>]
  ELSE LET f == filterFrom(cur.v, 1, key, value, DefaultOperation(operation),
                           <<>>, <<>>)
       IN [fault |-> f.fault,
           val |-> IF f.fault THEN Undef ELSE Arr(NewRef, f.val),
           log |-> f.log]

\* a getIndex that takes a falsy value argument (!value) for a missing one
getIndexValue_Falsy(cur, keyOrValue, value, operation) ==
  IF ~IsArray(cur) THEN [fault |-> FALSE, val |-> Undef, log |-> <<>>]
  ELSE LET byKey == ~(Typeof(keyOrValue) # "object"
                        /\ value \in {Undef, Null, NaN, Num(0), Bool(FALSE), Str(<<>>)})
           f == findIndexFrom(cur.v, 1, byKey, keyOrValue, value,
                              DefaultOperation(operation), <<>>)
       IN [fault |-> f.fault,
           val |-> IF f.fault THEN Undef ELSE Num(f.index),
           log |-> f.log]

\* a getLength that returns the length of whatever has one (current?.length)
getLengthValue_AnyLength(cur) ==
  IF cur.t \in {"array", "string"} THEN Num(Len(cur.v)) ELSE Undef

\* a getIndex that counts the elements from one
getIndexValue_OneBased(cur, keyOrValue, value, operation) ==
  IF ~IsArray(cur) THEN [fault |-> FALSE, val |-> Undef, log |-> <<>>]
  ELSE LET byKey == ~(Typeof(keyOrValue) # "object" /\ value.t = "undefined")
           f == findIndexFrom(cur.v, 1, byKey, keyOrValue, value,
                              DefaultOperation(operation), <<>>)
       IN [fault |-> f.fault,
           val |-> IF f.fault THEN Undef
                   ELSE IF f.index < 0 THEN Num(f.index) ELSE Num(f.index + 1),
           log |-> f.log]

\* a find that throws when the current value is not an array
findValue_Throws(cur, key, value, operation) ==
  IF ~IsArray(cur) THEN [fault |-> TRUE, val |-> Undef, log |-> <<>>]
  ELSE arrayFind(cur.v, key, value, DefaultOperation(operation))

\* a find that looks for nothing when the value it is given is undefined
findValue_UndefinedValue(cur, key, value, operation) ==
  IF ~IsArray(cur) \/ value.t = "undefined"
    THEN [fault |-> FALSE, val |-> Undef, log |-> <<>>]
  ELSE arrayFind(cur.v, key, value, DefaultOperation(operation))

\* find(key, value, operation): [fault, val, log], val the current value of
\* the Navigator returned
findValue(cur, key, value, operation) ==
  IF ~IsArray(cur) THEN [fault |-> FALSE, val |-> Undef, log |-> <<>>]
  ELSE arrayFind(cur.v, key, value, DefaultOperation(operation))

\* filter(key, value, operation): [fault, val, log]
filterValue(cur, key, value, operation) ==
  IF ~IsArray(cur) THEN [fault |-> FALSE, val |-> Undef, log |-> <<>>]
  ELSE LET f == filterFrom(cur.v, 1, key, value, DefaultOperation(operation),
                           <<>>, <<>>)
       IN [fault |-> f.fault,
           val |-> IF f.fault THEN Undef ELSE Arr(NewRef, f.val),
           log |-> f.log]

\* getIndex(keyOrValue, value, operation): [fault, val, log], val the number
\* or undefined returned
getIndexValue(cur, keyOrValue, value, operation) ==
  IF ~IsArray(cur) THEN [fault |-> FALSE, val |-> Undef, log |-> <<>>]
  ELSE LET byKey == ~(Typeof(keyOrValue) # "object" /\ value.t = "undefined")
           f == findIndexFrom(cur.v, 1, byKey, keyOrValue, value,
                              DefaultOperation(operation), <<>>)
       IN [fault |-> f.fault,
           val |-> IF f.fault THEN Undef ELSE Num(f.index),
           log |-> f.log]

\* getLength()
getLengthValue(cur) == IF IsArray(cur) THEN Num(Len(cur.v)) ELSE Undef

\* the find(key, value) of the earlier class: [fault, val, log]; it throws an
\* Error when the current value is not an array, and looks for the first
\* element with item[key] === value
findLegacyValue(cur, key, value) ==
  IF ~IsArray(cur) THEN [fault |-> TRUE, val |-> Undef, log |-> <<>>]
  ELSE LET f == arrayFind(cur.v, key, value, "equals")
       IN [fault |-> f.fault, val |-> f.val, log |-> <<>>]

----------------------------------------------------------------------------
(* The data the Navigators are built on *)

RecA == Obj(11, (<<"a">> :> Num(1)) @@ (<<"b">> :> Str(<<"a">>)))

RecB == Obj(12, (<<"a">> :> Num(2)) @@ (<<"b">> :> Str(<<"b">>)))

RecC == Obj(13, (<<"a">> :> Num(1)) @@ (<<"b">> :> Null))

RecD == Obj(14, (<<"a">> :> Str(<<"1">>)) @@ (<<"b">> :> Undef))

RecE == Obj(15, (<<"a">> :> NaN) @@ (<<"0">> :> Num(3)))

\* a record with the contents of RecA that is another object
RecA2 == Obj(16, (<<"a">> :> Num(1)) @@ (<<"b">> :> Str(<<"a">>)))

RecF == Obj(17, (<<"a">> :> RecA) @@ (<<"b">> :> Bool(TRUE)))

\* an array of keyed records
Recs == Arr(21, <<RecA, RecB, RecC, RecD>>)

\* an array of numbers
Nums == Arr(22, <<Num(2), Num(3), Num(1), Num(3)>>)

\* an array of records and primitives
Mixed == Arr(23, <<RecE, Str(<<"a", "b">>), RecF, Num(2)>>)

\* arrays with a null and an undefined element
Holes == Arr(24, <<RecB, Null, RecA>>)

Gaps == Arr(25, <<Undef, Num(1)>>)

\* an array of keyed records that hold a text, a record and a number under
\* the same key
Prefs == Arr(27, <<RecD, RecF, RecB>>)

Empty == Arr(26, <<>>)

Inner ==
  Obj(2, (<<"a">> :> Null) @@ (<<"b">> :> Undef) @@ (<<"0">> :> Num(2))
         @@ (<<"0", "1">> :> Bool(TRUE)) @@ (<<"1">> :> Mixed)
         @@ (<<>> :> Str(<<"b">>)))

Root ==
  Obj(1, (<<"a">> :> Inner) @@ (<<"b">> :> Recs) @@ (<<"0">> :> Nums)
         @@ (<<"1">> :> Str(<<"a", "b">>)) @@ (<<"a", "b">> :> Holes))

\* the users of the example of the documentation
IdKey == <<"i", "d">>

AgeKey == <<"a", "g", "e">>

Alice == Obj(31, (IdKey :> Num(1)) @@ (AgeKey :> Num(28)))

Bob == Obj(32, (IdKey :> Num(2)) @@ (AgeKey :> Num(32)))

Charlie == Obj(33, (IdKey :> Num(3)) @@ (AgeKey :> Num(22)))

Users == Arr(28, <<Alice, Bob, Charlie>>)

Roots ==
  {Root, Recs, Nums, Mixed, Holes, Gaps, Empty, Prefs, Users, Inner,
   Null, Undef, Num(0), Str(<<"a", "b">>), Bool(FALSE)}

\* the characters of the path strings
Alphabet == {"a", "b", ".", "0", "1"}

RECURSIVE StringsUpTo(_)
StringsUpTo(n) ==
  IF n = 0 THEN {<<>>}
  ELSE LET shorter == StringsUpTo(n - 1)
       IN shorter \cup {Append(s, c) : s \in shorter, c \in Alphabet}

\* longer paths, given as such
LongPaths ==
  {<<"a", ".", "a", ".", "a">>, <<"a", ".", "b", ".", "a">>,
   <<"b", ".", "0", ".", "a">>, <<"b", ".", "0", "1", ".", "b">>,
   <<"a", ".", "1", ".", "0", ".", "0">>, <<"a", "b", ".", "1", ".", "a">>,
   <<"0", ".", "0", "0", "1">>, <<"a", ".", "0", "1">>,
   LengthKey, <<"0", ".">> \o LengthKey, <<"1", ".">> \o LengthKey,
   <<"-", "1">>, <<"1", "x">>, <<"0", ".", "-", "1">>}

Paths == StringsUpTo(MaxPathLen) \cup LongPaths

\* the key arguments of find and filter
Keys == {Str(<<"a">>), Str(<<"b">>), Str(<<"0">>), Str(LengthKey), Str(AgeKey)}

\* the value arguments
Values ==
  {Undef, Null, NaN, Str(<<"a">>), Str(<<"1">>), Bool(TRUE), RecA, RecA2}
    \cup {Num(n) : n \in 0..MaxNum}

\* the operation arguments: the six operations, an operation that is none of
\* them, and no operation
OperationArgs == Operations \cup {"matches", OperationOmitted}

----------------------------------------------------------------------------
(* The state: a caller holding one Navigator and calling its methods *)

VARIABLES
  obj,      \* the root the Navigator in hand was built on (this.obj)
  current,  \* its current value (this.current)
  pc,       \* "ready", or "returned" / "thrown" after a call
  call,     \* the last call: method and arguments
  ret,      \* what the last call returned
  log       \* the calls of compare the last call made

vars == <<obj, current, pc, call, ret, log>>

NoCall ==
  [op |-> "none", keyPath |-> <<>>, key |-> Undef, value |-> Undef,
   operation |-> OperationOmitted]

NoRet == [kind |-> "none", obj |-> Undef, current |-> Undef]

\* a constructor call that takes the value for the root as well
\* (navigator(value))
NestedNavigator_Rebased(o, c) == [kind |-> "navigator", obj |-> c, current |-> c]

\* new NestedNavigator(o, c)
NestedNavigator(o, c) == [kind |-> "navigator", obj |-> o, current |-> c]

Plain(x) == [kind |-> "plain", obj |-> Undef, current |-> x]

Thrown == [kind |-> "throw", obj |-> Undef, current |-> Undef]

\* navigator(root)
Init ==
  /\ obj \in Roots
  /\ current = obj
  /\ pc = "ready"
  /\ call = NoCall
  /\ ret = NoRet
  /\ log = <<>>

\* an end of a call that stores the value returned in the receiver
\* (this.current = value)
Finish_Stores(c, faulted, r, l) ==
  /\ call' = c
  /\ pc' = IF faulted THEN "thrown" ELSE "returned"
  /\ ret' = IF faulted THEN Thrown ELSE r
  /\ log' = l
  /\ current' = IF faulted THEN current ELSE r.current
  /\ UNCHANGED obj

\* the end of a call: the receiver is left as it is
Finish(c, faulted, r, l) ==
  /\ call' = c
  /\ pc' = IF faulted THEN "thrown" ELSE "returned"
  /\ ret' = IF faulted THEN Thrown ELSE r
  /\ log' = l
  /\ UNCHANGED <<obj, current>>

\* a navigateTo that descends from the root (this.obj) and not from the
\* current value
navigateTo_FromRoot ==
  /\ pc = "ready"
  /\ \E keyPath \in Paths :
       LET r == navigateToValue(obj, keyPath)
       IN Finish([NoCall EXCEPT !.op = "navigateTo", !.keyPath = keyPath],
                 r.fault, NestedNavigator(obj, r.val), <<>>)

navigateTo ==
  /\ pc = "ready"
  /\ \E keyPath \in Paths :
       LET r == navigateToValue(current, keyPath)
       IN Finish([NoCall EXCEPT !.op = "navigateTo", !.keyPath = keyPath],
                 r.fault, NestedNavigator(obj, r.val), <<>>)

find ==
  /\ pc = "ready"
  /\ \E key \in Keys, value \in Values, operation \in OperationArgs :
       LET r == findValue(current, key, value, operation)
       IN Finish([NoCall EXCEPT !.op = "find", !.key = key, !.value = value,
                                !.operation = operation],
                 r.fault, NestedNavigator(obj, r.val), r.log)

filter ==
  /\ pc = "ready"
  /\ \E key \in Keys, value \in Values, operation \in OperationArgs :
       LET r == filterValue(current, key, value, operation)
       IN Finish([NoCall EXCEPT !.op = "filter", !.key = key, !.value = value,
                                !.operation = operation],
                 r.fault, NestedNavigator(obj, r.val), r.log)

getIndex ==
  /\ pc = "ready"
  /\ \E keyOrValue \in Keys \cup Values, value \in Values,
        operation \in OperationArgs :
       LET r == getIndexValue(current, keyOrValue, value, operation)
       IN Finish([NoCall EXCEPT !.op = "getIndex", !.key = keyOrValue,
                                !.value = value, !.operation = operation],
                 r.fault, Plain(r.val), r.log)

getLength ==
  /\ pc = "ready"
  /\ Finish([NoCall EXCEPT !.op = "getLength"], FALSE,
            Plain(getLengthValue(current)), <<>>)

value ==
  /\ pc = "ready"
  /\ Finish([NoCall EXCEPT !.op = "value"], FALSE, Plain(current), <<>>)

\* the caller goes on with the Navigator the call returned
Chain ==
  /\ pc = "returned"
  /\ ret.kind = "navigator"
  /\ obj' = ret.obj
  /\ current' = ret.current
  /\ pc' = "ready"
  /\ call' = NoCall
  /\ ret' = NoRet
  /\ log' = <<>>

\* the caller goes on with the Navigator it called
Again ==
  /\ pc \in {"returned", "thrown"}
  /\ pc' = "ready"
  /\ call' = NoCall
  /\ ret' = NoRet
  /\ log' = <<>>
  /\ UNCHANGED <<obj, current>>

\* navigator(root): the caller starts over on a root
navigator ==
  /\ pc \in {"returned", "thrown"}
  /\ \E root \in Roots :
       /\ obj' = root
       /\ current' = root
  /\ pc' = "ready"
  /\ call' = NoCall
  /\ ret' = NoRet
  /\ log' = <<>>

Next ==
  \/ navigateTo
  \/ find
  \/ filter
  \/ getIndex
  \/ getLength
  \/ value
  \/ Chain
  \/ Again
  \/ navigator

Spec == Init /\ [][Next]_vars

\* the methods of the earlier class: navigateTo, find(key, value) and value
navigateToLegacy ==
  /\ pc = "ready"
  /\ \E keyPath \in Paths :
       LET r == navigateToLegacyValue(current, keyPath)
       IN Finish([NoCall EXCEPT !.op = "navigateTo", !.keyPath = keyPath],
                 r.fault, NestedNavigator(obj, r.val), <<>>)

findLegacy ==
  /\ pc = "ready"
  /\ \E key \in Keys, matchValue \in Values :
       LET r == findLegacyValue(current, key, matchValue)
       IN Finish([NoCall EXCEPT !.op = "find", !.key = key,
                                !.value = matchValue],
                 r.fault, NestedNavigator(obj, r.val), r.log)

NextLegacy ==
  \/ navigateToLegacy
  \/ findLegacy
  \/ value
  \/ Chain
  \/ Again
  \/ navigator

SpecLegacy == Init /\ [][NextLegacy]_vars

----------------------------------------------------------------------------
(* Reference definitions the properties of navigateTo are stated with *)

\* the outcome of the last call: [fault, val]
Outcome == IF pc = "thrown" THEN Throws ELSE Returns(ret.current)

HasDot(s) == \E i \in 1..Len(s) : s[i] = "."

FirstDot(s) == CHOOSE i \in 1..Len(s) : s[i] = "." /\ \A j \in 1..(i - 1) : s[j] # "."

\* the segments of a path: the text before its first dot, then the segments
\* of the text after it
RECURSIVE Segments(_)
Segments(s) ==
  IF ~HasDot(s) THEN <<s>>
  ELSE <<SubSeq(s, 1, FirstDot(s) - 1)>> \o Segments(SubSeq(s, FirstDot(s) + 1, Len(s)))

Front(s) == SubSeq(s, 1, Len(s) - 1)

Last(s) == s[Len(s)]

\* the number a string of decimal digits denotes
RECURSIVE Denotes(_)
Denotes(seg) ==
  IF Len(seg) = 0 THEN 0 ELSE 10 * Denotes(Front(seg)) + DigitVal(Last(seg))

OnlyDigits(seg) == seg # <<>> /\ {seg[i] : i \in 1..Len(seg)} \subseteq Digits

\* one step of the reference descent
Step(acc, seg) ==
  IF acc = Undef THEN Returns(Undef)
  ELSE IF acc.t = "array" /\ OnlyDigits(seg)
    THEN Returns(IF Denotes(seg) < Len(acc.v) THEN acc.v[Denotes(seg) + 1] ELSE Undef)
    ELSE GetProp(acc, seg)

\* the reference descent from a value through a sequence of segments: the
\* step of the last segment applied to the descent through the others
RECURSIVE Descent(_, _)
Descent(start, segs) ==
  IF segs = <<>> THEN Returns(start)
  ELSE LET before == Descent(start, Front(segs))
       IN IF before.fault THEN Throws ELSE Step(before.val, Last(segs))

\* the last call is navigateTo(keyPath)
Navigated == pc # "ready" /\ call.op = "navigateTo"

\* the accumulator the last segment of the path of the last call is applied
\* to: [fault, val]
LastAcc == Descent(current, Front(Segments(call.keyPath)))

LastSeg == Last(Segments(call.keyPath))

\* a segment resolves on a value when the value has a property of that name
SegResolves(acc, seg) ==
  CASE acc.t = "record" -> seg \in DOMAIN acc.v
    [] acc.t \in {"array", "string"} ->
         \/ seg = LengthKey
         \/ OnlyDigits(seg) /\ Denotes(seg) < Len(acc.v)
              /\ (acc.t = "array" \/ Len(seg) = 1 \/ seg[1] # "0")
    [] OTHER -> FALSE

\* the value a resolving segment names
SegValue(acc, seg) ==
  CASE acc.t = "record" -> acc.v[seg]
    [] seg = LengthKey -> Num(Len(acc.v))
    [] acc.t = "array" -> acc.v[Denotes(seg) + 1]
    [] acc.t = "string" -> Str(<<acc.v[Denotes(seg) + 1]>>)

\* every segment of the sequence resolves, one after the other
RECURSIVE AllResolve(_, _)
AllResolve(acc, segs) ==
  IF segs = <<>> THEN TRUE
  ELSE /\ SegResolves(acc, Head(segs))
       /\ AllResolve(SegValue(acc, Head(segs)), Tail(segs))

\* some segment of the path is applied to a null the segments before it
\* resolved to
RECURSIVE ReadsFromNull(_, _)
ReadsFromNull(acc, segs) ==
  IF segs = <<>> THEN FALSE
  ELSE \/ acc = Null
       \/ /\ SegResolves(acc, Head(segs))
          /\ ReadsFromNull(SegValue(acc, Head(segs)), Tail(segs))

----------------------------------------------------------------------------
(* Properties of navigateTo *)

\* C1: navigateTo(path) ends as the reference descent from the current value
\* through the segments of the path does: with the same value, an all-digit
\* segment being an index on an array and a key of that name on a record
C1_NavigateToIsDescent ==
  Navigated => Outcome = Descent(current, Segments(call.keyPath))

\* C1 witness: "a.01" on the root reads the key "01" of a record
C1_Witness ==
  /\ Navigated
  /\ current = Root
  /\ call.keyPath = <<"a", ".", "0", "1">>
  /\ pc = "returned"
  /\ ret.current = Bool(TRUE)

\* C2: navigateTo on navigator(v) with a path whose segments do not all
\* resolve returns a Navigator of undefined and never throws
C2_UnresolvedIsAbsent ==
  (Navigated /\ current = obj /\ ~AllResolve(current, Segments(call.keyPath)))
    => (pc = "returned" /\ ret.current = Undef)

\* C3: navigateTo with a segment after a location that holds null returns a
\* Navigator of undefined and does not throw
C3_PastNullIsAbsent ==
  (Navigated /\ ReadsFromNull(current, Segments(call.keyPath)))
    => (pc = "returned" /\ ret.current = Undef)

\* C4: when the last segment of the path names a location that holds null,
\* navigateTo returns a Navigator of null, which is not undefined; when it
\* names a key that holds undefined, a Navigator of undefined
C4_NullAtEndIsNull ==
  (/\ Navigated
   /\ ~LastAcc.fault
   /\ SegResolves(LastAcc.val, LastSeg)
   /\ SegValue(LastAcc.val, LastSeg) \in {Null, Undef})
    => /\ pc = "returned"
       /\ ret.current = SegValue(LastAcc.val, LastSeg)
       /\ (SegValue(LastAcc.val, LastSeg) = Null => ret.current # Undef)

\* C4 witness: "a.a" on the root ends on a key that holds null
C4_Witness ==
  /\ Navigated
  /\ current = Root
  /\ call.keyPath = <<"a", ".", "a">>
  /\ ret.current = Null

\* C5: an all-digit segment applied to an array reads the element at the
\* index the digits denote, leading zeros included, and undefined when the
\* index is not below the length
C5_DigitsIndexArray ==
  (/\ Navigated
   /\ ~LastAcc.fault
   /\ LastAcc.val.t = "array"
   /\ OnlyDigits(LastSeg))
    => /\ pc = "returned"
       /\ ret.current =
            IF Denotes(LastSeg) < Len(LastAcc.val.v)
              THEN LastAcc.val.v[Denotes(LastSeg) + 1]
              ELSE Undef

\* C5 witness: "0.001" on the root reads element 1 of the array of numbers
C5_Witness ==
  /\ Navigated
  /\ current = Root
  /\ call.keyPath = <<"0", ".", "0", "0", "1">>
  /\ ret.current = Num(3)

----------------------------------------------------------------------------
(* Properties of compare, find and filter *)

Orderings ==
  {"greater_than", "less_than", "greater_than_or_equal", "less_than_or_equal"}

\* the comparison of two integers an ordering operation names
Ordered(m, n, operation) ==
  CASE operation = "greater_than" -> n < m
    [] operation = "less_than" -> m < n
    [] operation = "greater_than_or_equal" -> ~(m < n)
    [] operation = "less_than_or_equal" -> ~(n < m)

\* the last call is a call of the method on an array
Queried(method) == pc # "ready" /\ call.op = method /\ current.t = "array"

\* the operation of the last call
CallOperation ==
  IF call.operation = OperationOmitted THEN "equals" ELSE call.operation

\* the value a keyed record holds under a key, undefined when it has none
KeyValue(e, key) == IF key.v \in DOMAIN e.v THEN e.v[key.v] ELSE Undef

\* every element of the current array is a keyed record
OfRecords == \A i \in 1..Len(current.v) : current.v[i].t = "record"

\* the indices (from 1) of the keyed records the predicate of the last call
\* accepts
Matching ==
  {i \in 1..Len(current.v) :
     compare(KeyValue(current.v[i], call.key), call.value, CallOperation)}

\* the least element of a non-empty set of integers
Least(S) == CHOOSE i \in S : \A j \in S : i <= j

\* the elements of a sequence at the indices of a set, in their order
SubSequence(items, S) ==
  [j \in 1..Cardinality(S) |->
     items[CHOOSE i \in S : Cardinality({k \in S : k < i}) = j - 1]]

\* no element of the current array is null or undefined, and neither an
\* element nor what it holds under the key of the last call is a number
NonNumericElements ==
  \A i \in 1..Len(current.v) :
    /\ current.v[i].t \notin {"null", "undefined", "number"}
    /\ GetElem(current.v[i], call.key).val.t # "number"

\* C6: an ordering operation is the comparison of the two numbers when both
\* operands are numbers and false when either is not, the same value twice
\* included; so with an ordering operation on elements that hold no numbers
\* find returns a Navigator of undefined, filter one of an empty array and
\* getIndex -1
C6_OrderingsNeedNumbers ==
  /\ \A n \in 1..Len(log) :
       log[n].operation \in Orderings =>
         log[n].r = IF log[n].a.t = "number" /\ log[n].b.t = "number"
                      THEN Ordered(log[n].a.v, log[n].b.v, log[n].operation)
                      ELSE FALSE
  /\ (call.operation \in Orderings /\ current.t = "array" /\ NonNumericElements) =>
       /\ call.op = "find" => (pc = "returned" /\ ret.current = Undef)
       /\ call.op = "filter" =>
            (pc = "returned" /\ ret.current.t = "array" /\ ret.current.v = <<>>)
       /\ call.op = "getIndex" => (pc = "returned" /\ ret.current = Num(0 - 1))

\* C6 witness: find by a key that holds texts, with a text that one element
\* holds and greater_than_or_equal, compares every element and finds none
C6_Witness ==
  /\ Queried("find")
  /\ current = Recs
  /\ call.key = Str(<<"b">>)
  /\ call.value = Str(<<"a">>)
  /\ call.operation = "greater_than_or_equal"
  /\ Len(log) = 4
  /\ log[1].a = log[1].b
  /\ ret.current = Undef

\* C7: equals is true exactly when the operands have the same type and the
\* same value, and not_equals is its negation
C7_EqualsIsSameValue ==
  \A n \in 1..Len(log) :
    /\ log[n].operation = "equals" => log[n].r = (log[n].a = log[n].b)
    /\ log[n].operation = "not_equals" =>
         log[n].r = ~compare(log[n].a, log[n].b, "equals")

\* C7 as amended: equals is true exactly when the operands have the same type
\* and the same value and are not NaN, a record or an array being the same
\* value as itself only; not_equals is its negation
C7_EqualsIsSameValueButNaN ==
  \A n \in 1..Len(log) :
    /\ log[n].operation = "equals" =>
         log[n].r = (log[n].a = log[n].b /\ log[n].a # NaN)
    /\ log[n].operation = "not_equals" =>
         /\ log[n].r = ~(log[n].a = log[n].b /\ log[n].a # NaN)
         /\ log[n].r = ~compare(log[n].a, log[n].b, "equals")

\* C7 witness: the number 1 and the text "1" are compared with equals and
\* found unequal
C7_Witness ==
  /\ Queried("find")
  /\ \E n \in 1..Len(log) :
       /\ log[n].operation = "equals"
       /\ log[n].a = Str(<<"1">>)
       /\ log[n].b = Num(1)
       /\ ~log[n].r

\* C8: an operation that is none of the six makes compare false, and find
\* return a Navigator of undefined, filter one of an empty array and getIndex
\* -1, on any array, without a fault
C8_UnknownOperationIsFalse ==
  /\ \A n \in 1..Len(log) : log[n].operation \notin Operations => ~log[n].r
  /\ (pc # "ready" /\ current.t = "array"
        /\ call.operation \notin Operations \cup {OperationOmitted}) =>
       /\ call.op = "find" => (pc = "returned" /\ ret.current = Undef)
       /\ call.op = "filter" =>
            (pc = "returned" /\ ret.current.t = "array" /\ ret.current.v = <<>>)
       /\ call.op = "getIndex" => (pc = "returned" /\ ret.current = Num(0 - 1))

\* C9: on an array of keyed records find returns a Navigator of the element
\* at the smallest index whose value under the key the predicate accepts, and
\* of undefined when there is none
C9_FindIsFirstMatch ==
  (Queried("find") /\ OfRecords) =>
    /\ pc = "returned"
    /\ ret.current =
         IF Matching = {} THEN Undef ELSE current.v[Least(Matching)]

\* C9 witness: two records hold 1 under "a"; find returns the first
C9_Witness ==
  /\ Queried("find")
  /\ current = Recs
  /\ call.key = Str(<<"a">>)
  /\ call.value = Num(1)
  /\ call.operation = "equals"
  /\ Matching = {1, 3}
  /\ ret.current = RecA

\* C10: on an array of keyed records, the empty array included, filter
\* returns a Navigator of the array of the elements the predicate accepts, in
\* their order: an empty array, not undefined, when there is none
C10_FilterIsSubsequence ==
  (Queried("filter") /\ OfRecords) =>
    /\ pc = "returned"
    /\ ret.current.t = "array"
    /\ ret.current.v = SubSequence(current.v, Matching)
    /\ (Matching = {} => ret.current.v = <<>> /\ ret.current # Undef)

\* C10 witness: filter keeps the two records that hold 1 under "a" in order
C10_Witness ==
  /\ Queried("filter")
  /\ current = Recs
  /\ call.key = Str(<<"a">>)
  /\ call.value = Num(1)
  /\ call.operation = "equals"
  /\ ret.current.v = <<RecA, RecC>>

----------------------------------------------------------------------------
(* Properties of the queries on any current value, and of chaining *)

\* the last call is a call of the method
Called(method) == pc # "ready" /\ call.op = method

\* the indices (from 1) of the elements the last call accepts when it compares
\* the elements themselves with its first argument
ItemMatching ==
  {i \in 1..Len(current.v) : compare(current.v[i], call.key, CallOperation)}

C12_GetIndexByItem ==
  (Queried("getIndex") /\ call.value = Undef /\ call.key.t # "record") =>
    /\ pc = "returned"
    /\ ret.current =
         IF ItemMatching = {} THEN Num(0 - 1) ELSE Num(Least(ItemMatching) - 1)

\* C13: getIndex on an array of keyed records, with a key and a value, returns
\* the smallest index of an element whose value under the key compare accepts,
\* elements whose value the operation rejects for its type being passed over,
\* and -1 when there is none
C13_GetIndexByKey ==
  (Queried("getIndex") /\ OfRecords /\ call.key.t = "string" /\ call.value # Undef) =>
    /\ pc = "returned"
    /\ ret.current =
         IF Matching = {} THEN Num(0 - 1) ELSE Num(Least(Matching) - 1)

\* C13 witness: greater_than_or_equal 1 passes over the text "1" and a record
\* and returns the index of the record that holds 2
C13_Witness ==
  /\ Queried("getIndex")
  /\ current = Prefs
  /\ call.key = Str(<<"a">>)
  /\ call.value = Num(1)
  /\ call.operation = "greater_than_or_equal"
  /\ ret.current = Num(2)

\* C14: getIndex returns undefined exactly when the current value is no
\* array; on every array and with every argument it returns an integer from
\* -1 to the length less one
C14_GetIndexRange ==
  Called("getIndex") =>
    /\ pc = "returned"
    /\ (ret.current = Undef) = (current.t # "array")
    /\ current.t = "array" =>
         /\ ret.current.t = "number"
         /\ ret.current.v \in (0 - 1)..(Len(current.v) - 1)

\* C15: getLength returns the number of elements of an array, 0 for the empty
\* one, and undefined for any other current value, without a fault
C15_GetLength ==
  Called("getLength") =>
    /\ pc = "returned"
    /\ ret.kind = "plain"
    /\ ret.current =
         IF current.t = "array" THEN Num(Cardinality(DOMAIN current.v)) ELSE Undef

\* C15 witness: getLength of the empty array is 0
C15_Witness ==
  /\ Called("getLength")
  /\ current = Empty
  /\ ret.current = Num(0)

C17_QueriesNeverThrow ==
  (Queried("find") \/ Queried("filter") \/ Queried("getIndex")) => pc = "returned"

\* what the last call yields on a Navigator of the value cur: [fault, val]
CallOn(cur, operation) ==
  CASE call.op = "navigateTo" ->
         LET r == navigateToValue(cur, call.keyPath) IN [fault |-> r.fault, val |-> r.val]
    [] call.op = "find" ->
         LET r == findValue(cur, call.key, call.value, operation)
         IN [fault |-> r.fault, val |-> r.val]
    [] call.op = "filter" ->
         LET r == filterValue(cur, call.key, call.value, operation)
         IN [fault |-> r.fault, val |-> r.val]
    [] call.op = "getIndex" ->
         LET r == getIndexValue(cur, call.key, call.value, operation)
         IN [fault |-> r.fault, val |-> r.val]
    [] call.op = "getLength" -> Returns(getLengthValue(cur))
    [] call.op = "value" -> Returns(cur)

\* C18: a call on a Navigator reached by a chain ends as the same call on
\* navigator(value()) does: the result depends on the current value and the
\* arguments only, not on the root
C18_ChainingComposes ==
  pc # "ready" => Outcome = CallOn(current, call.operation)

\* C18 witness: find on the array reached from the root by navigateTo
C18_Witness ==
  /\ Called("find")
  /\ obj = Root
  /\ current = Recs
  /\ call.key = Str(<<"a">>)
  /\ call.value = Num(2)
  /\ call.operation = "equals"
  /\ ret.current = RecB

\* C19: a call changes neither the root nor the current value of the
\* Navigator it is made on, and value returns that current value, so that
\* value returns the same again after any calls
C19_NavigatorUnchanged ==
  [][(pc = "ready" /\ pc' # "ready") =>
       /\ obj' = obj
       /\ current' = current
       /\ (call'.op = "value" => (pc' = "returned" /\ ret'.current = current))]_vars

\* C19 witness: value has been called on a Navigator derived from another
C19_Witness ==
  /\ Called("value")
  /\ obj = Root
  /\ current = RecA
  /\ ret.current = RecA

\* C20: on an array find, filter and getIndex without an operation end as
\* with the operation equals
C20_DefaultIsEquals ==
  (pc # "ready" /\ current.t = "array" /\ call.operation = OperationOmitted
     /\ call.op \in {"find", "filter", "getIndex"}) =>
    Outcome = CallOn(current, "equals")

\* C20 witness: find without an operation returns the record that holds 2
C20_Witness ==
  /\ Queried("find")
  /\ current = Recs
  /\ call.key = Str(<<"a">>)
  /\ call.value = Num(2)
  /\ call.operation = OperationOmitted
  /\ ret.current = RecB

----------------------------------------------------------------------------
(* Properties of the documented examples, of the root and of find *)

\* C21: on the array of the users of ages 28, 32 and 22,
\* getIndex("age", undefined, "less_than_or_equal") returns 2, the index of
\* the user of the least age
C21_YoungestIndex ==
  (Queried("getIndex") /\ current = Users /\ call.key = Str(AgeKey)
     /\ call.value = Undef /\ call.operation = "less_than_or_equal") =>
    /\ pc = "returned"
    /\ ret.current = Num(2)
    /\ \A i \in 1..Len(Users.v) :
         ~(Users.v[i].v[AgeKey].v < Users.v[ret.current.v + 1].v[AgeKey].v)

C23_RootRetained ==
  [][/\ (ret'.kind = "navigator" => ret'.obj = obj)
     /\ (pc = "ready" => (obj' = obj /\ current' = current))
     /\ (call'.op = "filter" /\ pc' = "returned" /\ current.t = "array") =>
          /\ ret'.current.t = "array"
          /\ Len(ret'.current.v) <= Len(current'.v)
          /\ current'.v = current.v
     /\ (obj' # obj => (pc # "ready" /\ current' = obj'))
     /\ obj' \in Roots]_vars

\* C23 witness: find has returned a Navigator on the root after navigateTo
\* and filter, the current value being the array filter built
C23_Witness ==
  /\ Called("find")
  /\ obj = Root
  /\ current.t = "array"
  /\ current.id = NewRef
  /\ Len(current.v) = 2
  /\ ret = NestedNavigator(Root, RecC)

\* C24: navigateTo("") reads the property of the empty name: on a keyed
\* record the value under the key "" (undefined when it has none), on an
\* array undefined and not the first element
C24_EmptyPath ==
  (Navigated /\ call.keyPath = <<>>) =>
    CASE current.t = "record" ->
           Outcome = Returns(IF <<>> \in DOMAIN current.v THEN current.v[<<>>]
                             ELSE Undef)
      [] current.t = "array" -> Outcome = Returns(Undef)
      [] OTHER -> TRUE

\* C24 witness: navigateTo("") on an array with a first element has returned
\* a Navigator of undefined
C24_Witness ==
  /\ Navigated
  /\ call.keyPath = <<>>
  /\ current = Nums
  /\ pc = "returned"
  /\ ret.current = Undef

\* the indices (from 1) of the keyed records that hold undefined, or
\* nothing, under the key of the last call
Lacking == {i \in 1..Len(current.v) : KeyValue(current.v[i], call.key) = Undef}

----------------------------------------------------------------------------
(* Relations among the methods, and between the two navigateTo *)

\* C26: navigateTo(p + "." + q) ends as navigateTo(p).navigateTo(q) does,
\* for every way of cutting the path of the call at one of its dots: with
\* the same value, or with a fault where either call of the sequence faults
C26_ConcatenationIsSequence ==
  Navigated =>
    \A i \in 1..Len(call.keyPath) :
      call.keyPath[i] = "." =>
        LET p == SubSeq(call.keyPath, 1, i - 1)
            q == SubSeq(call.keyPath, i + 1, Len(call.keyPath))
            first == navigateToValue(current, p)
        IN Outcome = IF first.fault THEN Throws
                     ELSE navigateToValue(first.val, q)

\* C26 witness: navigateTo("b.0.a") from the root has returned what
\* navigateTo("b").navigateTo("0.a") and navigateTo("b.0").navigateTo("a")
\* return
C26_Witness ==
  /\ Navigated
  /\ current = Root
  /\ call.keyPath = <<"b", ".", "0", ".", "a">>
  /\ pc = "returned"
  /\ ret.current = Num(1)

\* C27: on an array of keyed records and with a value other than undefined,
\* getIndex(key, value, operation) is -1 exactly when
\* find(key, value, operation) returns a Navigator of undefined, and is
\* otherwise the index of the element find returns
C27_FindAgreesWithGetIndex ==
  (Queried("getIndex") /\ OfRecords /\ call.value # Undef) =>
    LET f == findValue(current, call.key, call.value, call.operation)
    IN /\ pc = "returned"
       /\ ~f.fault
       /\ ret.current.t = "number"
       /\ (ret.current = Num(-1)) <=> (f.val = Undef)
       /\ ret.current # Num(-1) =>
            /\ ret.current.v \in 0..(Len(current.v) - 1)
            /\ f.val = current.v[ret.current.v + 1]

\* C27 witness: getIndex("b", null) has returned the index of the record
\* find("b", null) returns
C27_Witness ==
  /\ Queried("getIndex")
  /\ current = Recs
  /\ call.key = Str(<<"b">>)
  /\ call.value = Null
  /\ call.operation = "equals"
  /\ ret.current = Num(2)

\* C28: on an array of keyed records find(key, value, operation) returns
\* what navigateTo("0") returns on the Navigator
\* filter(key, value, operation) returns, undefined when filter accepts
\* nothing; and getLength on that Navigator is the number of elements the
\* predicate accepts, at most getLength of the source
C28_FindIsHeadOfFilter ==
  (Queried("filter") /\ OfRecords) =>
    /\ pc = "returned"
    /\ LET f == findValue(current, call.key, call.value, call.operation)
           head == navigateToValue(ret.current, <<"0">>)
       IN /\ ~f.fault
          /\ ~head.fault
          /\ f.val = head.val
    /\ getLengthValue(ret.current) = Num(Cardinality(Matching))
    /\ Cardinality(Matching) <= getLengthValue(current).v

\* C28 witness: filter("a", 1, "not_equals") has returned two of four
\* records, the first of them the record find returns
C28_Witness ==
  /\ Queried("filter")
  /\ current = Recs
  /\ call.key = Str(<<"a">>)
  /\ call.value = Num(1)
  /\ call.operation = "not_equals"
  /\ ret.current.v = <<RecB, RecD>>

RECURSIVE Regular(_, _)
Regular(acc, segs) ==
  IF segs = <<>> THEN TRUE
  ELSE /\ acc.t \in {"record", "array"}
       /\ acc.t = "array" => OnlyDigits(Head(segs))
       /\ Regular(Step(acc, Head(segs)).val, Tail(segs))

\* C30: the navigateTo of the earlier class (o && ..., Number(k)) returns
\* what the navigateTo of the class with the comparison operations returns,
\* on every current value and path of which every segment is applied to a
\* keyed record or an array, and to an array only when it is a non-empty
\* string of digits
C30_ImplementationsAgree ==
  (Navigated /\ Regular(current, Segments(call.keyPath))) =>
    Outcome = navigateToValue(current, call.keyPath)

\* C30 witness: the earlier navigateTo("b.01.b") from the root has returned
\* the text the second record of the array holds
C30_Witness ==
  /\ Navigated
  /\ current = Root
  /\ call.keyPath = <<"b", ".", "0", "1", ".", "b">>
  /\ pc = "returned"
  /\ ret.current = Str(<<"b">>)

====
